---- MODULE Spec2Model ----
(***************************************************************************)
(* Model of package ctxdb (src/ctxdb.go): a database handle carried in a   *)
(* context.Context, and the transaction helper Tx.                         *)
(*                                                                         *)
(* Contexts are immutable nodes of a parent chain (context.WithValue); the *)
(* model keeps every node ever created in the sequence ctxs and names a    *)
(* context by its index, 0 being context.Background().                     *)
(* An invocation of Tx is split at the points where foreign code runs: the *)
(* BeginTx call, the call of f, and the Commit/Rollback call.  A goroutine *)
(* runs a stack of (nested) invocations.  Spec is the program of one       *)
(* goroutine, SpecHelpers one that also calls Exec, Query and QueryRow,    *)
(* SpecCancel one whose contexts get cancelled, SpecConc the program of    *)
(* two goroutines that share the pool.                                     *)
(***************************************************************************)
EXTENDS Naturals, Sequences, FiniteSets

VARIABLES
    ctxs,    \* every context node created so far
    txs,     \* every *sql.Tx begun so far
    inv,     \* one record per invocation of Tx
    stack,   \* per goroutine: the invocations of Tx on its call stack
    store,   \* the database: the writes a read outside any transaction sees
    last,    \* the latest call of Exec, Query or QueryRow and what it returned
    done     \* the contexts are cancelled or past their deadline

vars == <<ctxs, txs, inv, stack, store, last, done>>

\* ---- bounds ------------------------------------------------------------
MaxCalls == 3      \* invocations of Tx in one run
MaxCtx == 2        \* contexts derived in one run, by callers, f and Tx

Procs == {"g1", "g2"}
Sequential == {"g1"}   \* the goroutines that run under Spec
Calls == 1..MaxCalls

\* ---- error values ------------------------------------------------------
\* An error is an interface value: a dynamic type, the value of that type
\* (id: the pointer for *errors.errorString, 0 for the empty struct
\* rollback{}) and the text Error() gives.
Nil == [type |-> "nil", id |-> 0, msg |-> ""]
Rollback == [type |-> "rollback", id |-> 0, msg |-> "rolling back"]
errMissingDB == [type |-> "errorString", id |-> 1, msg |-> "missing Databaser in context"]
errCantTx == [type |-> "errorString", id |-> 2, msg |-> "can't begin transaction on Databaser in context"]

\* errors of the collaborators and of f
ErrWork == [type |-> "errorString", id |-> 3, msg |-> "work failed"]
ErrSameMsg == [type |-> "errorString", id |-> 4, msg |-> "rolling back"]
ErrWrapped == [type |-> "wrapError", id |-> 5, msg |-> "wrapped: rolling back"]
ErrBegin == [type |-> "errorString", id |-> 6, msg |-> "begin failed"]
ErrCommit == [type |-> "errorString", id |-> 7, msg |-> "commit failed"]
ErrRollback == [type |-> "errorString", id |-> 8, msg |-> "rollback failed"]
ErrQuery == [type |-> "errorString", id |-> 10, msg |-> "query failed"]
ErrTxDone == [type |-> "errorString", id |-> 11, msg |-> "sql: transaction has already been committed or rolled back"]
\* ctx.Err() of a cancelled context, as a collaborator or f hands it on.
ErrCanceled == [type |-> "errorString", id |-> 12, msg |-> "context canceled"]

WorkResults == {Nil, Rollback, ErrWork, ErrSameMsg, ErrWrapped}
BeginResults == {Nil, ErrBegin}
CommitResults == {Nil, ErrCommit}
RollbackResults == {Nil, ErrRollback}
\* What a call on a handle can give in addition once the context is done.
CancelResults == IF done THEN {ErrCanceled} ELSE {}

\* Go's == on two interface values: same dynamic type and equal values.
GoEq(a, b) == a.type = b.type /\ a.id = b.id

\* ---- handles -----------------------------------------------------------
\* A Databaser value: the nil interface, a *sql.DB, a Databaser of another
\* type that has no BeginTx method, or the *sql.Tx number id.
NilDB == [kind |-> "nil", id |-> 0]
PoolDB == [kind |-> "db", id |-> 0]
PlainDB == [kind |-> "plain", id |-> 0]
TxDB(n) == [kind |-> "tx", id |-> n]

CallerHandles == {NilDB, PoolDB, PlainDB}

\* db.(beginTxer): *sql.DB (and *sql.Conn) have BeginTx, *sql.Tx has not.
\* (faulty variant: every handle is taken to have BeginTx)
HasBeginTxAlways(db) == TRUE
HasBeginTx(db) == db.kind = "db"

\* ---- contexts ----------------------------------------------------------
Background == 0

\* context.WithValue(ctx, key, val): a new node; the parent is untouched.
WithValue(cs, c, k, v) == Append(cs, [parent |-> c, key |-> k, val |-> v])

\* (faulty variant: the binding is also written into the parent node)
WithInPlace(cs, c, db) ==
    IF c = Background THEN WithValue(cs, c, "connKey", db)
    ELSE Append([cs EXCEPT ![c] = [parent |-> cs[c].parent, key |-> "connKey", val |-> db]],
                [parent |-> c, key |-> "connKey", val |-> db])
With(cs, c, db) == WithValue(cs, c, "connKey", db)

\* (faulty variant: a nil binding is skipped and the lookup goes on upwards)
RECURSIVE ValueSkipNil(_, _)
ValueSkipNil(cs, c) ==
    IF c = Background THEN NilDB
    ELSE IF cs[c].key = "connKey" /\ cs[c].val # NilDB THEN cs[c].val
    ELSE ValueSkipNil(cs, cs[c].parent)

\* ctx.Value(connKey{}): the value of the nearest node with that key.
RECURSIVE Value(_, _)
Value(cs, c) ==
    IF c = Background THEN NilDB
    ELSE IF cs[c].key = "connKey" THEN cs[c].val
    ELSE Value(cs, cs[c].parent)

\* The type assertion .(Databaser) fails on the nil interface.
\* (faulty variant: the result of the assertion is ignored)
getDBAlwaysOk(cs, c) == [db |-> Value(cs, c), ok |-> TRUE]
getDB(cs, c) == [db |-> Value(cs, c), ok |-> Value(cs, c) # NilDB]

\* ---- Tx, its three straight-line pieces --------------------------------
\* Lines 55-63: what Tx returns before any begin, Nil when it goes on.
\* (faulty variant: the beginTxer assertion is left out)
TxEntryNoCapability(cs, c) == IF ~getDB(cs, c).ok THEN errMissingDB ELSE Nil
\* (faulty variant: Tx gives up when its context is done)
TxEntryChecksCancel(cs, c) ==
    IF ~getDB(cs, c).ok THEN errMissingDB
    ELSE IF ~HasBeginTx(getDB(cs, c).db) THEN errCantTx
    ELSE IF done THEN ErrCanceled
    ELSE Nil
TxEntry(cs, c) ==
    IF ~getDB(cs, c).ok THEN errMissingDB
    ELSE IF ~HasBeginTx(getDB(cs, c).db) THEN errCantTx
    ELSE Nil

\* Lines 65-70: after BeginTx returned err, is f called, and what is
\* returned if it is not.
\* (faulty variant: the BeginTx error is wrapped)
AfterBeginWrap(err) ==
    [callF |-> err = Nil,
     ret |-> IF err = Nil THEN Nil ELSE [type |-> "wrapError", id |-> 9, msg |-> err.msg]]
AfterBegin(err) == [callF |-> err = Nil, ret |-> err]

\* Lines 71-80: after f returned err; term is the call made on tx, and
\* termErr is what that call returns.
\* (faulty variants: Rollback recognised by its text; the Commit error
\* dropped; the Rollback error returned; Commit issued on Rollback)
AfterWorkByMsg(err, termErr) ==
    IF err # Nil
    THEN [term |-> "rollback", ret |-> IF err.msg = Rollback.msg THEN Nil ELSE err]
    ELSE [term |-> "commit", ret |-> termErr]
AfterWorkMaskCommit(err, termErr) ==
    IF err # Nil
    THEN [term |-> "rollback", ret |-> IF GoEq(err, Rollback) THEN Nil ELSE err]
    ELSE [term |-> "commit", ret |-> Nil]
AfterWorkRollbackShadows(err, termErr) ==
    IF err # Nil
    THEN [term |-> "rollback",
          ret |-> IF termErr # Nil THEN termErr
                  ELSE IF GoEq(err, Rollback) THEN Nil ELSE err]
    ELSE [term |-> "commit", ret |-> termErr]
AfterWorkCommitOnAbort(err, termErr) ==
    IF err # Nil /\ ~GoEq(err, Rollback)
    THEN [term |-> "rollback", ret |-> err]
    ELSE [term |-> "commit", ret |-> IF err = Nil THEN termErr ELSE Nil]
AfterWork(err, termErr) ==
    IF err # Nil
    THEN [term |-> "rollback", ret |-> IF GoEq(err, Rollback) THEN Nil ELSE err]
    ELSE [term |-> "commit", ret |-> termErr]

\* ---- Exec, Query, QueryRow ----------------------------------------------
\* A query stands for the query string together with its arguments, which
\* the helpers pass on as they are (args...).
Queries == {"q1", "q2"}

\* What a helper hands back: a sql.Result, a *sql.Rows, a *sql.Row, or nil.
\* rows is what the query read; err is the error a *sql.Row keeps until
\* it is scanned.
NilRes == [kind |-> "nil", rows |-> {}, err |-> Nil]
NoReply == [res |-> NilRes, err |-> Nil]

\* (&row{err: e}).intoDBRow(): a *sql.Row that holds e.
IntoDBRow(e) == [kind |-> "row", rows |-> {}, err |-> e]
\* (*sql.Row).Scan gives the error the row holds before anything else.
Scan(r) == r.err

\* One call made on a handle.
Delegated(db, method, c, q) == [target |-> db, method |-> method, ctx |-> c, query |-> q]

\* Lines 84-90.  out is what db.ExecContext gives back when it is called.
\* (faulty variant: the handle of the context Tx was called with is used)
ExecOuter(cs, c, q, out) ==
    IF ~getDB(cs, c).ok THEN [calls |-> <<>>, res |-> NilRes, err |-> errMissingDB]
    ELSE [calls |-> <<Delegated(IF getDB(cs, c).db.kind = "tx" THEN PoolDB ELSE getDB(cs, c).db,
                                "ExecContext", c, q)>>,
          res |-> out.res, err |-> out.err]
Exec(cs, c, q, out) ==
    IF ~getDB(cs, c).ok THEN [calls |-> <<>>, res |-> NilRes, err |-> errMissingDB]
    ELSE [calls |-> <<Delegated(getDB(cs, c).db, "ExecContext", c, q)>>,
          res |-> out.res, err |-> out.err]

\* Lines 93-99.
Query(cs, c, q, out) ==
    IF ~getDB(cs, c).ok THEN [calls |-> <<>>, res |-> NilRes, err |-> errMissingDB]
    ELSE [calls |-> <<Delegated(getDB(cs, c).db, "QueryContext", c, q)>>,
          res |-> out.res, err |-> out.err]

\* Lines 102-108.  QueryRow has one result, the row.
\* (faulty variant: a nil row is returned when the handle is missing)
QueryRowNil(cs, c, q, out) ==
    IF ~getDB(cs, c).ok THEN [calls |-> <<>>, res |-> NilRes, err |-> Nil]
    ELSE [calls |-> <<Delegated(getDB(cs, c).db, "QueryRowContext", c, q)>>,
          res |-> out.res, err |-> Nil]
QueryRow(cs, c, q, out) ==
    IF ~getDB(cs, c).ok THEN [calls |-> <<>>, res |-> IntoDBRow(errMissingDB), err |-> Nil]
    ELSE [calls |-> <<Delegated(getDB(cs, c).db, "QueryRowContext", c, q)>>,
          res |-> out.res, err |-> Nil]

\* ---- state -------------------------------------------------------------
\* The latest helper call: what was asked, the calls it made on a handle,
\* the reply the handle gave (NoReply when none was asked) and what the
\* helper returned.
NoCall ==
    [op |-> "none", ctx |-> 0, query |-> "", calls |-> <<>>, reply |-> NoReply,
     res |-> NilRes, err |-> Nil]

NoInv ==
    [st |-> "unused", pc |-> "none", ctx |-> 0, db |-> NilDB, tx |-> 0,
     wctx |-> 0, parent |-> 0, beginErr |-> Nil, werr |-> Nil,
     termErr |-> Nil, ret |-> Nil, trace |-> <<>>, doneAt |-> "never"]

Init ==
    /\ ctxs = <<>>
    /\ txs = <<>>
    /\ inv = [i \in Calls |-> NoInv]
    /\ stack = [p \in Procs |-> <<>>]
    /\ store = {}
    /\ last = NoCall
    /\ done = FALSE

Top(p) == stack[p][Len(stack[p])]
Pop(p) == [stack EXCEPT ![p] = SubSeq(stack[p], 1, Len(stack[p]) - 1)]
Used == {i \in Calls : inv[i].st # "unused"}
NextId == Cardinality(Used) + 1
Count(s, e) == Cardinality({k \in 1..Len(s) : s[k] = e})

\* The run may derive one more context.
Room == Len(ctxs) < MaxCtx

\* A goroutine can call into the package when it is outside Tx or inside f.
CanCall(p) == IF stack[p] = <<>> THEN TRUE ELSE inv[Top(p)].pc = "work"

\* ---- actions -----------------------------------------------------------
\* Code outside the package (a caller of Tx, or f) derives a context:
\* With(c, db), or a context.WithValue under another key / a
\* context.WithCancel, which binds no handle.
Attach(p, c, db) ==
    /\ CanCall(p)
    /\ Room
    /\ ctxs' = With(ctxs, c, db)
    /\ UNCHANGED <<txs, inv, stack, store, last, done>>

Derive(p, c) ==
    /\ CanCall(p)
    /\ Room
    /\ ctxs' = WithValue(ctxs, c, "other", NilDB)
    /\ UNCHANGED <<txs, inv, stack, store, last, done>>

\* Tx(ctx, f) is called, lines 54-63.
TxCall(p, c) ==
    /\ CanCall(p)
    /\ NextId \in Calls
    /\ LET id == NextId
           e == TxEntry(ctxs, c)
           rec == [NoInv EXCEPT !.ctx = c, !.db = getDB(ctxs, c).db,
                                !.parent = IF stack[p] = <<>> THEN 0 ELSE Top(p),
                                !.doneAt = IF done THEN "entry" ELSE "never"]
       IN  IF e # Nil
           THEN /\ inv' = [inv EXCEPT ![id] =
                              [rec EXCEPT !.st = "returned", !.pc = "done",
                                          !.ret = e, !.trace = <<"ret">>]]
                /\ UNCHANGED stack
           ELSE /\ inv' = [inv EXCEPT ![id] = [rec EXCEPT !.st = "running", !.pc = "begin"]]
                /\ stack' = [stack EXCEPT ![p] = Append(stack[p], id)]
    /\ UNCHANGED <<ctxs, txs, store, last, done>>

\* txer.BeginTx(ctx, nil) returns, lines 65-70: on success f is called
\* with the derived context.
TxBegin(p, err) ==
    /\ stack[p] # <<>>
    /\ inv[Top(p)].pc = "begin"
    /\ LET id == Top(p)
           a == AfterBegin(err)
           t == Len(txs) + 1
       IN  /\ txs' = IF err = Nil
                     THEN Append(txs, [base |-> inv[id].db, state |-> "open", by |-> id,
                                       pending |-> {}])
                     ELSE txs
           /\ IF a.callF
              THEN /\ ctxs' = With(ctxs, inv[id].ctx, TxDB(IF err = Nil THEN t ELSE 0))
                   /\ inv' = [inv EXCEPT ![id] =
                                 [@ EXCEPT !.pc = "work", !.beginErr = err,
                                           !.tx = IF err = Nil THEN t ELSE 0,
                                           !.wctx = Len(ctxs'),
                                           !.trace = @ \o <<"begin", "work">>]]
                   /\ UNCHANGED stack
              ELSE /\ inv' = [inv EXCEPT ![id] =
                                 [@ EXCEPT !.st = "returned", !.pc = "done",
                                           !.beginErr = err, !.ret = a.ret,
                                           !.tx = IF err = Nil THEN t ELSE 0,
                                           !.trace = @ \o <<"begin", "ret">>]]
                   /\ stack' = Pop(p)
                   /\ UNCHANGED ctxs
    /\ UNCHANGED <<store, last, done>>

\* f returns err.
WorkReturn(p, err) ==
    /\ stack[p] # <<>>
    /\ inv[Top(p)].pc = "work"
    /\ inv' = [inv EXCEPT ![Top(p)] =
                  [@ EXCEPT !.pc = "decide", !.werr = err, !.trace = @ \o <<"workret">>]]
    /\ UNCHANGED <<ctxs, txs, stack, store, last, done>>

\* f panics (or calls runtime.Goexit): Tx has no deferred call, so the
\* frame is unwound at line 70 and nothing after it runs.  The code that
\* called Tx may recover and go on.
WorkPanic(p) ==
    /\ stack[p] # <<>>
    /\ inv[Top(p)].pc = "work"
    /\ inv' = [inv EXCEPT ![Top(p)] =
                  [@ EXCEPT !.st = "panicked", !.pc = "done", !.trace = @ \o <<"panic">>]]
    /\ stack' = Pop(p)
    /\ UNCHANGED <<ctxs, txs, store, last, done>>

\* (faulty variant: Tx returns at once and the Rollback or Commit call is
\* left to run after the return)
TxFinishAfterReturn(p, termErr) ==
    /\ stack[p] # <<>>
    /\ inv[Top(p)].pc = "decide"
    /\ LET id == Top(p)
           a == AfterWork(inv[id].werr, termErr)
       IN  /\ termErr \in (IF a.term = "commit" THEN CommitResults ELSE RollbackResults)
                          \cup CancelResults
           /\ inv' = [inv EXCEPT ![id] =
                         [@ EXCEPT !.st = "returned", !.pc = "done",
                                   !.termErr = termErr, !.ret = a.ret,
                                   !.trace = @ \o <<"ret", a.term>>]]
    /\ stack' = Pop(p)
    /\ UNCHANGED <<ctxs, txs, store, last, done>>

\* Lines 71-80: the Rollback or Commit call, which returns termErr, and
\* the return of Tx.
TxFinish(p, termErr) ==
    /\ stack[p] # <<>>
    /\ inv[Top(p)].pc = "decide"
    /\ LET id == Top(p)
           a == AfterWork(inv[id].werr, termErr)
       IN  /\ termErr \in (IF a.term = "commit" THEN CommitResults ELSE RollbackResults)
                          \cup CancelResults
           /\ txs' = IF inv[id].tx = 0 THEN txs
                     ELSE [txs EXCEPT ![inv[id].tx].state =
                              IF a.term = "commit"
                              THEN (IF termErr = Nil THEN "committed" ELSE "commitFailed")
                              ELSE (IF termErr = Nil THEN "rolledBack" ELSE "rollbackFailed")]
           /\ store' = IF inv[id].tx # 0 /\ a.term = "commit" /\ termErr = Nil
                       THEN store \cup txs[inv[id].tx].pending
                       ELSE store
           /\ inv' = [inv EXCEPT ![id] =
                         [@ EXCEPT !.st = "returned", !.pc = "done",
                                   !.termErr = termErr, !.ret = a.ret,
                                   !.trace = @ \o <<a.term, "ret">>]]
    /\ stack' = Pop(p)
    /\ UNCHANGED <<ctxs, last, done>>

\* What a read through db sees: the database, and inside a transaction
\* also the transaction's own writes.
Visible(db) ==
    IF db.kind = "tx" /\ db.id \in 1..Len(txs)
    THEN store \cup txs[db.id].pending
    ELSE store

Usable(db) ==
    IF db.kind = "tx" THEN db.id \in 1..Len(txs) /\ txs[db.id].state = "open"
    ELSE db.kind # "nil"

\* What the handle's method can give back.
Replies(db, method) ==
    IF ~Usable(db)
    THEN {IF method = "QueryRowContext"
          THEN [res |-> IntoDBRow(ErrTxDone), err |-> Nil]
          ELSE [res |-> NilRes, err |-> ErrTxDone]}
    ELSE IF method = "ExecContext"
    THEN {[res |-> [kind |-> "result", rows |-> {}, err |-> Nil], err |-> Nil],
          [res |-> NilRes, err |-> ErrQuery]}
    ELSE IF method = "QueryContext"
    THEN {[res |-> [kind |-> "rows", rows |-> Visible(db), err |-> Nil], err |-> Nil],
          [res |-> NilRes, err |-> ErrQuery]}
    ELSE {[res |-> [kind |-> "row", rows |-> Visible(db), err |-> Nil], err |-> Nil],
          [res |-> IntoDBRow(ErrQuery), err |-> Nil]}

\* out is a reply the calls of r can get (NoReply when r made no call).
ReplyFits(r, out) ==
    IF r.calls = <<>> THEN out = NoReply
    ELSE out \in Replies(r.calls[1].target, r.calls[1].method)

\* The replies to choose from when a helper is called with context c.
RepliesFor(c, method) ==
    IF Value(ctxs, c) = NilDB THEN {NoReply} ELSE Replies(Value(ctxs, c), method)

\* Exec(ctx, q) is called by code outside the package.  A statement that
\* succeeds writes.  A write is named after the transaction it was made
\* in, 0 when it was made outside any transaction.
ExecCall(p, c, q, out) ==
    /\ CanCall(p)
    /\ LET r == Exec(ctxs, c, q, out)
           wrote == r.calls # <<>> /\ out.err = Nil
           db == r.calls[1].target
       IN  /\ ReplyFits(r, out)
           /\ last' = [op |-> "Exec", ctx |-> c, query |-> q, calls |-> r.calls,
                       reply |-> out, res |-> r.res, err |-> r.err]
           /\ txs' = IF wrote /\ db.kind = "tx"
                     THEN [txs EXCEPT ![db.id].pending = @ \cup {db.id}]
                     ELSE txs
           /\ store' = IF wrote /\ db.kind # "tx" THEN store \cup {0} ELSE store
    /\ UNCHANGED <<ctxs, inv, stack, done>>

\* Query(ctx, q) is called.
QueryCall(p, c, q, out) ==
    /\ CanCall(p)
    /\ LET r == Query(ctxs, c, q, out)
       IN  /\ ReplyFits(r, out)
           /\ last' = [op |-> "Query", ctx |-> c, query |-> q, calls |-> r.calls,
                       reply |-> out, res |-> r.res, err |-> r.err]
    /\ UNCHANGED <<ctxs, txs, inv, stack, store, done>>

\* QueryRow(ctx, q) is called.
QueryRowCall(p, c, q, out) ==
    /\ CanCall(p)
    /\ LET r == QueryRow(ctxs, c, q, out)
       IN  /\ ReplyFits(r, out)
           /\ last' = [op |-> "QueryRow", ctx |-> c, query |-> q, calls |-> r.calls,
                       reply |-> out, res |-> r.res, err |-> r.err]
    /\ UNCHANGED <<ctxs, txs, inv, stack, store, done>>

\* The program of one goroutine.  A run derives at most MaxCtx contexts;
\* once they are used up BeginTx can only fail.
Next ==
    \/ \E p \in Sequential, c \in 0..Len(ctxs), db \in CallerHandles : Attach(p, c, db)
    \/ \E p \in Sequential, c \in 0..Len(ctxs) : Derive(p, c)
    \/ \E p \in Sequential, c \in 0..Len(ctxs) : TxCall(p, c)
    \/ \E p \in Sequential, err \in BeginResults : (err = Nil => Room) /\ TxBegin(p, err)
    \/ \E p \in Sequential, err \in WorkResults : WorkReturn(p, err)
    \/ \E p \in Sequential : WorkPanic(p)
    \/ \E p \in Sequential, e \in CommitResults \cup RollbackResults : TxFinish(p, e)

Spec == Init /\ [][Next]_vars

\* The program of one goroutine that also uses the helpers.  It derives
\* each context from the latest one (a lookup walks one chain, so the
\* siblings of a tree add nothing to it), it runs one transaction, and f
\* ends by returning.
HelperWorkResults == {Nil, Rollback, ErrWork}
OneTx == Used = {}

NextHelpers ==
    \/ \E p \in Sequential, db \in CallerHandles : Attach(p, Len(ctxs), db)
    \/ \E p \in Sequential : Derive(p, Len(ctxs))
    \/ \E p \in Sequential, c \in 0..Len(ctxs) : OneTx /\ TxCall(p, c)
    \/ \E p \in Sequential, err \in BeginResults : (err = Nil => Room) /\ TxBegin(p, err)
    \/ \E p \in Sequential, err \in HelperWorkResults : WorkReturn(p, err)
    \/ \E p \in Sequential, e \in CommitResults \cup RollbackResults : TxFinish(p, e)
    \/ \E p \in Sequential, c \in 0..Len(ctxs), q \in Queries :
           \E out \in RepliesFor(c, "ExecContext") : ExecCall(p, c, q, out)
    \/ \E p \in Sequential, c \in 0..Len(ctxs), q \in Queries :
           \E out \in RepliesFor(c, "QueryContext") : QueryCall(p, c, q, out)
    \/ \E p \in Sequential, c \in 0..Len(ctxs), q \in Queries :
           \E out \in RepliesFor(c, "QueryRowContext") : QueryRowCall(p, c, q, out)

SpecHelpers == Init /\ [][NextHelpers]_vars

\* The context is cancelled, or its deadline passes, while the program
\* runs.  Nothing of the package runs at that moment; each invocation
\* under way notes where it stood.
Cancel ==
    /\ ~done
    /\ done' = TRUE
    /\ inv' = [i \in Calls |->
                  IF inv[i].st = "running" THEN [inv[i] EXCEPT !.doneAt = inv[i].pc]
                  ELSE inv[i]]
    /\ UNCHANGED <<ctxs, txs, stack, store, last>>

\* The program of one goroutine whose contexts can be cancelled at any
\* moment.  Once they are, BeginTx, Commit and Rollback can fail with the
\* context's error and f can hand it on.  The program binds the pool to
\* the latest context (Background has no handle and the context Tx gives
\* f holds a transaction, so Tx meets every kind of context), and f ends
\* by returning.
NextCancel ==
    \/ \E p \in Sequential : Attach(p, Len(ctxs), PoolDB)
    \/ \E p \in Sequential : TxCall(p, Len(ctxs))
    \/ \E p \in Sequential, err \in BeginResults \cup CancelResults :
           (err = Nil => Room) /\ TxBegin(p, err)
    \/ \E p \in Sequential, err \in HelperWorkResults \cup CancelResults : WorkReturn(p, err)
    \/ \E p \in Sequential, e \in CommitResults \cup RollbackResults \cup CancelResults :
           TxFinish(p, e)
    \/ Cancel

SpecCancel == Init /\ [][NextCancel]_vars

\* The program of two goroutines: the pool is bound to one context, then
\* both goroutines call Tx with that context, in any interleaving, and f
\* ends by returning.  The pool hands out a transaction to each BeginTx
\* that succeeds, at most MaxCtx of them in a run.
TxRoom == Len(txs) < MaxCtx

NextConc ==
    \/ \E p \in Sequential : ctxs = <<>> /\ Attach(p, Background, PoolDB)
    \/ \E p \in Procs : ctxs # <<>> /\ TxCall(p, 1)
    \/ \E p \in Procs, err \in BeginResults : (err = Nil => TxRoom) /\ TxBegin(p, err)
    \/ \E p \in Procs, err \in HelperWorkResults : WorkReturn(p, err)
    \/ \E p \in Procs, e \in CommitResults \cup RollbackResults : TxFinish(p, e)

SpecConc == Init /\ [][NextConc]_vars

\* ---- vocabulary of the properties --------------------------------------
\* The contexts c descends from, c included (Background excluded).
RECURSIVE Ancestry(_, _)
Ancestry(cs, c) == IF c = Background THEN {} ELSE {c} \cup Ancestry(cs, cs[c].parent)

\* Some With in the ancestry of c bound a handle.
HandleBound(cs, c) ==
    \E k \in Ancestry(cs, c) : cs[k].key = "connKey" /\ cs[k].val # NilDB

\* The nearest With in the ancestry of c (0: none), and the nearest one
\* that bound a handle.
NearestWith(cs, c) ==
    LET W == {k \in Ancestry(cs, c) : cs[k].key = "connKey"}
    IN  IF W = {} THEN 0 ELSE CHOOSE k \in W : \A j \in W : j <= k
NearestBound(cs, c) ==
    LET W == {k \in Ancestry(cs, c) : cs[k].key = "connKey" /\ cs[k].val # NilDB}
    IN  IF W = {} THEN 0 ELSE CHOOSE k \in W : \A j \in W : j <= k

\* The method of the handle that stands behind a helper.
MethodOf(op) ==
    IF op = "Exec" THEN "ExecContext"
    ELSE IF op = "Query" THEN "QueryContext" ELSE "QueryRowContext"

Finished(i) == inv[i].st \in {"returned", "panicked"}
Begins(i) == Count(inv[i].trace, "begin")
Works(i) == Count(inv[i].trace, "work")
Commits(i) == Count(inv[i].trace, "commit")
Rollbacks(i) == Count(inv[i].trace, "rollback")
WorkReturned(i) == Count(inv[i].trace, "workret") = 1
TxsOf(i) == {t \in 1..Len(txs) : txs[t].by = i}
\* Tx returned before line 65: nothing was asked of the handle or of f.
NothingDone(i) == inv[i].trace = <<"ret">> /\ TxsOf(i) = {} /\ inv[i].wctx = 0

\* C1: with no Handle bound in the context, Tx returns errMissingDB; f is
\* not invoked and no begin, commit or rollback is issued.
C1_MissingHandle ==
    \A i \in Used :
        ~HandleBound(ctxs, inv[i].ctx) =>
            /\ inv[i].st = "returned"
            /\ inv[i].ret = errMissingDB
            /\ NothingDone(i)

C1_Witness ==
    \E i \in Used :
        /\ inv[i].ctx # Background
        /\ ~HandleBound(ctxs, inv[i].ctx)
        /\ inv[i].st = "returned"

\* C2: when the resolved Handle has no BeginTx, Tx returns errCantTx; f is
\* not invoked and no begin, commit or rollback is issued.
C2_UnsupportedHandle ==
    \A i \in Used :
        Value(ctxs, inv[i].ctx).kind \in {"plain", "tx"} =>
            /\ inv[i].st = "returned"
            /\ inv[i].ret = errCantTx
            /\ NothingDone(i)

C2_Witness ==
    \E i \in Used :
        /\ Value(ctxs, inv[i].ctx) = PlainDB
        /\ inv[i].st = "returned"

\* C3: when BeginTx fails with B, Tx returns B itself; f is not invoked
\* and no commit or rollback is issued.
C3_BeginFailure ==
    \A i \in Used :
        inv[i].beginErr # Nil =>
            /\ inv[i].st = "returned"
            /\ inv[i].ret = inv[i].beginErr
            /\ inv[i].trace = <<"begin", "ret">>
            /\ TxsOf(i) = {}

C3_Witness ==
    \E i \in Used : inv[i].beginErr = ErrBegin /\ inv[i].st = "returned"

\* C4: when begin succeeds and f returns nil, Tx issues a commit and no
\* rollback and returns what the commit returned.
C4_CommitOnNil ==
    \A i \in Used :
        (inv[i].st = "returned" /\ WorkReturned(i) /\ inv[i].werr = Nil) =>
            /\ Commits(i) = 1
            /\ Rollbacks(i) = 0
            /\ inv[i].ret = inv[i].termErr
            /\ txs[inv[i].tx].state =
                   (IF inv[i].termErr = Nil THEN "committed" ELSE "commitFailed")

C4_Witness ==
    \E i \in Used :
        /\ inv[i].st = "returned" /\ WorkReturned(i) /\ inv[i].werr = Nil
        /\ inv[i].termErr = ErrCommit /\ inv[i].ret = ErrCommit

\* C5: when begin succeeds and f returns Rollback, Tx issues a rollback and
\* no commit and returns nil, whatever the rollback returned.
C5_AbortAbsorbed ==
    \A i \in Used :
        (inv[i].st = "returned" /\ WorkReturned(i) /\ inv[i].werr = Rollback) =>
            /\ Rollbacks(i) = 1
            /\ Commits(i) = 0
            /\ inv[i].ret = Nil
            /\ txs[inv[i].tx].state \in {"rolledBack", "rollbackFailed"}

C5_Witness ==
    \E i \in Used :
        /\ inv[i].st = "returned" /\ WorkReturned(i) /\ inv[i].werr = Rollback
        /\ inv[i].termErr = ErrRollback

\* C6: when begin succeeds and f returns an error E that is neither nil nor
\* Rollback, Tx issues a rollback and no commit and returns E itself, also
\* when the rollback fails.
C6_WorkErrorReturned ==
    \A i \in Used :
        (inv[i].st = "returned" /\ WorkReturned(i)
           /\ inv[i].werr \notin {Nil, Rollback}) =>
            /\ Rollbacks(i) = 1
            /\ Commits(i) = 0
            /\ inv[i].ret = inv[i].werr
            /\ txs[inv[i].tx].state \in {"rolledBack", "rollbackFailed"}

C6_Witness ==
    \E i \in Used :
        /\ inv[i].st = "returned" /\ WorkReturned(i) /\ inv[i].werr = ErrWork
        /\ inv[i].termErr = ErrRollback /\ inv[i].ret = ErrWork

\* C7: an invocation that passed the handle and capability checks issues
\* exactly one begin; when the begin succeeded it invokes f exactly once
\* and, once it is over, has issued exactly one of commit and rollback.
C7_OneBeginOneTerminal ==
    \A i \in Used :
        (Finished(i) /\ ~NothingDone(i)) =>
            /\ Begins(i) = 1
            /\ inv[i].beginErr = Nil =>
                   /\ Works(i) = 1
                   /\ Commits(i) + Rollbacks(i) = 1

\* C8: a transaction begun by an invocation that is over is committed or
\* rolled back, never still open.
C8_NoTxOutlivesInvocation ==
    \A t \in 1..Len(txs) : Finished(txs[t].by) => txs[t].state # "open"

\* C9: Tx on a context whose nearest Handle is a transaction returns
\* errCantTx, begins nothing and does not invoke the inner f; the outer
\* transaction stays open while the outer f runs and is committed exactly
\* when the outer f returned nil.
C9_NestingRejected ==
    \A i \in Used :
        Value(ctxs, inv[i].ctx).kind = "tx" =>
            /\ inv[i].st = "returned"
            /\ inv[i].ret = errCantTx
            /\ NothingDone(i)
            /\ inv[i].parent # 0 =>
                 LET j == inv[i].parent
                 IN  /\ inv[j].pc \in {"work", "decide"} => txs[inv[j].tx].state = "open"
                     /\ inv[j].st = "returned" =>
                            (Commits(j) = 1 <=> inv[j].werr = Nil)
                     /\ inv[j].st = "returned" =>
                            (Rollbacks(j) = 1 <=> inv[j].werr # Nil)

C9_Witness ==
    \E i \in Used :
        /\ inv[i].parent # 0
        /\ inv[i].ctx = inv[inv[i].parent].wctx
        /\ inv[i].ret = errCantTx
        /\ inv[inv[i].parent].st = "returned"
        /\ inv[inv[i].parent].werr = Nil

\* C10: With leaves every existing context as it was (each step keeps what
\* every existing context resolves to); the context Tx derives resolves to
\* the transaction, and the context Tx was called with still resolves to
\* the caller's handle while f runs and after Tx is over.
C10_ContextsKept ==
    /\ \A c \in 0..Len(ctxs) :
           c <= Len(ctxs') /\ getDB(ctxs', c) = getDB(ctxs, c)
    /\ \A n \in (Len(ctxs) + 1)..Len(ctxs') :
           ctxs'[n].key = "connKey" => getDB(ctxs', n).db = ctxs'[n].val

C10_TxContexts ==
    \A i \in Used :
        /\ getDB(ctxs, inv[i].ctx).db = inv[i].db
        /\ inv[i].db.kind # "tx" \/ NothingDone(i)
        /\ inv[i].wctx # 0 =>
               /\ getDB(ctxs, inv[i].wctx) = [db |-> TxDB(inv[i].tx), ok |-> TRUE]
               /\ ctxs[inv[i].wctx].parent = inv[i].ctx

C10_AttachKeepsInput == [][C10_ContextsKept]_vars /\ []C10_TxContexts

C10_Witness ==
    \E i \in Used :
        /\ inv[i].st = "returned"
        /\ inv[i].wctx # 0
        /\ getDB(ctxs, inv[i].ctx).db = PoolDB
        /\ getDB(ctxs, inv[i].wctx).db = TxDB(inv[i].tx)

\* C11: a helper called with a context in whose ancestry no handle is
\* bound makes no call on any handle; Exec and Query return errMissingDB;
\* QueryRow returns a row (not nil) and no error, and scanning that row
\* gives errMissingDB.
C11_NoHandleNoCall ==
    (last.op # "none" /\ ~HandleBound(ctxs, last.ctx)) =>
        /\ last.calls = <<>>
        /\ last.op \in {"Exec", "Query"} => last.err = errMissingDB
        /\ last.op = "QueryRow" =>
               /\ last.res.kind = "row"
               /\ last.err = Nil
               /\ Scan(last.res) = errMissingDB

C11_Witness ==
    /\ last.op = "QueryRow"
    /\ last.ctx # Background
    /\ ~HandleBound(ctxs, last.ctx)
    /\ Scan(last.res) = errMissingDB

\* The helper made one call, on handle db, with the method that stands
\* behind it and with the context and the query (and arguments) it was
\* given, and it returned what that call gave back.
C12_Verbatim(db) ==
    /\ Len(last.calls) = 1
    /\ last.calls[1] = Delegated(db, MethodOf(last.op), last.ctx, last.query)
    /\ last.res = last.reply.res
    /\ last.err = last.reply.err
    /\ \A i \in Calls :
           (inv[i].tx # 0 /\ inv[i].wctx = last.ctx) =>
               /\ last.calls[1].target = TxDB(inv[i].tx)
               /\ last.calls[1].target # inv[i].db

C13_Wrote(i) == inv[i].tx # 0 /\ txs[inv[i].tx].pending # {}

\* The step is a Query that succeeds on a handle that is no transaction.
C13_ReadOutside ==
    /\ last' # last
    /\ UNCHANGED <<ctxs, txs, inv, stack, store, done>>
    /\ last'.op = "Query"
    /\ last'.calls # <<>>
    /\ last'.calls[1].target.kind # "tx"
    /\ last'.err = Nil

C13_ReadSeesAllOrNothing ==
    C13_ReadOutside =>
        \A i \in Calls :
            (inv[i].st = "returned" /\ C13_Wrote(i)) =>
                /\ (inv[i].werr = Nil /\ inv[i].termErr = Nil) => inv[i].tx \in last'.res.rows
                /\ inv[i].werr # Nil => inv[i].tx \notin last'.res.rows

\* C13: a read made outside the transaction after Tx has returned sees
\* the write f made through its context when f returned nil and the
\* commit succeeded, and does not see it when f returned Rollback or
\* another error.
C13_AtomicVisibility == [][C13_ReadSeesAllOrNothing]_vars

C13_Witness ==
    \E i \in Calls :
        /\ inv[i].st = "returned"
        /\ C13_Wrote(i)
        /\ inv[i].werr = Nil /\ inv[i].termErr = Nil
        /\ last.op = "Query"
        /\ last.calls # <<>>
        /\ last.calls[1].target = PoolDB
        /\ inv[i].tx \in last.res.rows

\* C14: in one invocation the begin has completed before f starts, f has
\* returned before the commit or rollback is issued, and that call has
\* completed before Tx returns; nothing of the invocation happens after it
\* is over.
C14_Orders ==
    {<<"ret">>,
     <<"begin", "ret">>,
     <<"begin", "work", "workret", "commit", "ret">>,
     <<"begin", "work", "workret", "rollback", "ret">>,
     <<"begin", "work", "panic">>}

IsPrefix(s, t) == Len(s) <= Len(t) /\ s = SubSeq(t, 1, Len(s))

C14_OrderNow ==
    \A i \in Used :
        /\ \E t \in C14_Orders :
               /\ IsPrefix(inv[i].trace, t)
               /\ Finished(i) => inv[i].trace = t
        /\ inv[i].pc \in {"work", "decide"} =>
               /\ inv[i].tx \in 1..Len(txs)
               /\ txs[inv[i].tx].state = "open"
        /\ (inv[i].st = "returned" /\ WorkReturned(i)) =>
               txs[inv[i].tx].state # "open"

C14_NothingAfterReturn ==
    \A i \in Used :
        Finished(i) =>
            /\ inv'[i] = inv[i]
            /\ \A t \in TxsOf(i) : txs'[t] = txs[t]

C14_StrictOrder == []C14_OrderNow /\ [][C14_NothingAfterReturn]_vars

C14_Witness ==
    \E i \in Used :
        /\ inv[i].trace = <<"begin", "work", "workret", "commit", "ret">>
        /\ txs[inv[i].tx].state = "committed"
        /\ \E j \in Used : j > i

\* C15: an error of f that is not the value Rollback itself, though it has
\* the same text or wraps Rollback, is an ordinary error: Tx rolls back and
\* returns that error, not nil.
C15_AbortByIdentity ==
    \A i \in Used :
        (inv[i].st = "returned" /\ WorkReturned(i)
           /\ inv[i].werr \in {ErrSameMsg, ErrWrapped}) =>
            /\ inv[i].trace = <<"begin", "work", "workret", "rollback", "ret">>
            /\ inv[i].ret = inv[i].werr
            /\ inv[i].ret # Nil

C15_Witness ==
    \E i \in Used :
        /\ inv[i].st = "returned" /\ WorkReturned(i)
        /\ inv[i].werr = ErrSameMsg
        /\ inv[i].werr.msg = Rollback.msg
        /\ inv[i].ret = ErrSameMsg

\* C16 (as claimed): getDB returns the handle of the nearest With in the
\* ancestry and reports ok = FALSE exactly when no handle is bound anywhere
\* in the ancestry.
C16_FoundIffBoundAnywhere ==
    \A c \in 0..Len(ctxs) :
        /\ NearestWith(ctxs, c) # 0 => getDB(ctxs, c).db = ctxs[NearestWith(ctxs, c)].val
        /\ getDB(ctxs, c).ok <=> HandleBound(ctxs, c)

\* C16 (amended): getDB returns the value of the nearest With in the
\* ancestry and reports ok = FALSE exactly when there is no With in the
\* ancestry or the nearest one bound the nil Databaser, whatever handles
\* are bound further up.
C16_FoundIffNearestBound ==
    \A c \in 0..Len(ctxs) :
        LET n == NearestWith(ctxs, c)
        IN  /\ n # 0 => getDB(ctxs, c).db = ctxs[n].val
            /\ n = 0 => getDB(ctxs, c).db = NilDB
            /\ getDB(ctxs, c).ok <=> (n # 0 /\ ctxs[n].val # NilDB)

C16_Witness ==
    \E c \in 1..Len(ctxs) :
        /\ HandleBound(ctxs, c)
        /\ ctxs[NearestWith(ctxs, c)].val = NilDB
        /\ ~getDB(ctxs, c).ok

\* The calls an invocation makes and what it returns when nothing looks
\* at cancellation: they follow from the handle of its context and from
\* what BeginTx, f and Commit gave back.
C17_Passed(i) ==
    getDB(ctxs, inv[i].ctx).ok /\ HasBeginTx(getDB(ctxs, inv[i].ctx).db)
C17_Steps(i) ==
    IF ~C17_Passed(i) THEN <<"ret">>
    ELSE IF inv[i].beginErr # Nil THEN <<"begin", "ret">>
    ELSE <<"begin", "work", "workret",
           IF inv[i].werr = Nil THEN "commit" ELSE "rollback", "ret">>
C17_Return(i) ==
    IF ~getDB(ctxs, inv[i].ctx).ok THEN errMissingDB
    ELSE IF ~C17_Passed(i) THEN errCantTx
    ELSE IF inv[i].beginErr # Nil THEN inv[i].beginErr
    ELSE IF inv[i].werr = Nil THEN inv[i].termErr
    ELSE IF inv[i].werr = Rollback THEN Nil
    ELSE inv[i].werr

\* C17: an invocation whose context was done when Tx was called, or became
\* done while it ran, makes the calls of an invocation on a live context
\* (begin; f once if begin succeeded; then the commit or rollback that
\* f's result selects) and returns what that one returns: past the handle
\* checks its error is the one BeginTx, f or Commit gave, never one of
\* its own.
C17_NoCancellationCheck ==
    \A i \in Calls :
        (inv[i].st = "returned" /\ inv[i].doneAt # "never") =>
            /\ inv[i].trace = C17_Steps(i)
            /\ inv[i].ret = C17_Return(i)
            /\ (C17_Passed(i) /\ inv[i].ret # Nil) =>
                   inv[i].ret \in {inv[i].beginErr, inv[i].werr, inv[i].termErr}

C17_Witness ==
    \E i \in Calls :
        /\ inv[i].st = "returned"
        /\ inv[i].doneAt = "entry"
        /\ inv[i].trace = <<"begin", "work", "workret", "commit", "ret">>
        /\ inv[i].ret = Nil

\* Invocation i began a transaction.
C18_Began(i) == inv[i].tx # 0

\* Every invocation that began has a transaction and a context of its own,
\* the context it gives f resolves to its own transaction, the context it
\* was called with still resolves to the handle it found there, and its
\* transaction is committed or rolled back by it alone, as its own f said.
C18_OwnTransaction ==
    \A i \in Calls :
        /\ (inv[i].st # "unused" /\ C17_Passed(i)) =>
               Begins(i) = (IF inv[i].pc = "begin" THEN 0 ELSE 1)
        /\ inv[i].st # "unused" => getDB(ctxs, inv[i].ctx).db = inv[i].db
        /\ C18_Began(i) =>
               /\ txs[inv[i].tx].by = i
               /\ txs[inv[i].tx].base = inv[i].db
               /\ getDB(ctxs, inv[i].wctx).db = TxDB(inv[i].tx)
               /\ \A j \in Calls \ {i} :
                      C18_Began(j) =>
                          /\ inv[j].tx # inv[i].tx
                          /\ inv[j].wctx # inv[i].wctx
                          /\ getDB(ctxs, inv[i].wctx).db # TxDB(inv[j].tx)
               /\ txs[inv[i].tx].state = "open" <=> inv[i].st = "running"
               /\ txs[inv[i].tx].state \in {"committed", "commitFailed"} <=>
                      (inv[i].st = "returned" /\ inv[i].werr = Nil)
               /\ txs[inv[i].tx].state \in {"rolledBack", "rollbackFailed"} <=>
                      (inv[i].st = "returned" /\ inv[i].werr # Nil)

\* A step changes a transaction only when the invocation that began it
\* returns in that step, and it changes no context.
C18_OnlyOwnStep ==
    /\ \A t \in 1..Len(txs) :
           txs'[t] # txs[t] =>
               \E i \in Calls :
                   inv[i].tx = t /\ inv[i].st = "running" /\ inv'[i].st = "returned"
    /\ \A c \in 1..Len(ctxs) : ctxs'[c] = ctxs[c]

\* C18: invocations of Tx that run at once on contexts sharing the pool
\* do not interfere: under every interleaving each one makes its own
\* begin, its f resolves its own transaction and never the other's, and
\* its transaction is committed or rolled back as its own f returned.
C18_NoInterference == []C18_OwnTransaction /\ [][C18_OnlyOwnStep]_vars

C18_Witness ==
    /\ stack["g1"] # <<>>
    /\ stack["g2"] # <<>>
    /\ LET i == Top("g1")
           j == Top("g2")
       IN  /\ inv[i].ctx = inv[j].ctx
           /\ inv[i].pc = "work"
           /\ inv[j].pc = "decide"
           /\ inv[j].werr = Rollback
           /\ C18_Began(i) /\ C18_Began(j)

\* C19: Tx returns nil exactly when f returned nil and the commit
\* succeeded, or f returned Rollback; a commit is issued exactly when f
\* returned nil.
C19_NilReturn ==
    \A i \in Used :
        inv[i].st = "returned" =>
            /\ inv[i].ret = Nil <=>
                   /\ WorkReturned(i)
                   /\ \/ inv[i].werr = Nil /\ inv[i].termErr = Nil
                      \/ inv[i].werr = Rollback
            /\ Commits(i) = 1 <=> (WorkReturned(i) /\ inv[i].werr = Nil)
            /\ Commits(i) = 1 <=>
                   (inv[i].tx # 0 /\ txs[inv[i].tx].state \in {"committed", "commitFailed"})

C19_Witness ==
    \E i \in Used :
        /\ inv[i].st = "returned"
        /\ inv[i].ret = Nil
        /\ Commits(i) = 0
        /\ txs[inv[i].tx].state = "rollbackFailed"

====
